---- MODULE Spec2Model ----
(***************************************************************************)
(* State-machine model of dependify's DependencyInjectionContainer:        *)
(* the bindings-by-key table, the per-flow scope stack held in a           *)
(* ContextVar, Dependency objects with their memoized instance, and the    *)
(* recursive Resolver.                                                     *)
(***************************************************************************)
EXTENDS Integers, Sequences, FiniteSets, TLC

\* ------------------------------------------------------------------ bounds
\* Dependency objects alive at once (referenced by some table).
MaxDeps == 3
\* Snapshots on one scope stack.
MaxDepth == 2
\* Successful producer invocations in one run (object serial numbers).
MaxCalls == 2
\* Entries in one list of decorators, and wrapper layers on one object.
MaxDecos == 3
MaxLayers == 3
\* Reads of the lazy field of one object.
MaxReads == 3

\* ------------------------------------------------------------------ inputs
\* Logical flows: the spawning flow and two flows it spawns.
Flows == {"main", "A", "B"}
Children == Flows \ {"main"}

\* Request keys.  "AnnLogger" is Annotated[Logger, ...]; "ClassVarT" is
\* ClassVar[T].
Keys == {"Logger", "Service", "AnnLogger", "ClassVarT"}

\* Producers (targets).  Logger: class without constructor parameters.
\* Service: class whose __init__(self, log: Logger) has one required
\* parameter.  Client: class whose __init__(self, log: Logger = None) has one
\* parameter with a default.  Empty: class whose instances are falsy (bool(x)
\* is False, as for list or a class defining __len__).  const: a non-callable
\* value.
Targets == {"Logger", "Service", "Client", "Empty", "const"}

Callable(t) == t # "const"

Params(t) ==
  CASE t = "Service" -> << [name |-> "log", type |-> "Logger", required |-> TRUE] >>
    [] t = "Client" -> << [name |-> "log", type |-> "Logger", required |-> FALSE] >>
    [] t = "NeedyRepo" -> << [name |-> "dep", type |-> "Dep", required |-> TRUE] >>
    [] t = "Repo" -> << [name |-> "value", type |-> "T", required |-> TRUE] >>
    [] OTHER -> << >>

\* get_origin(name) is Annotated, and get_args(name)[0].
IsAnnotated(k) == k = "AnnLogger"
AnnotatedBase(k) == "Logger"

\* The keys that are ClassVar[...] forms.
ClassVarKeys == {"ClassVarT"}

\* is_class_var(name)
NeverClassVar(k) == FALSE
IsClassVar(k) == k \in ClassVarKeys

\* ------------------------------------------------------------------ values
\* A runtime object: who produced it, its serial number (identity) and the
\* keyword arguments its producer received, as <<name, value>> pairs.
Obj(by, n, args) == [by |-> by, n |-> n, args |-> args]
None == Obj("None", 0, << >>)
NOT_RESOLVED == Obj("NOT_RESOLVED", 0, << >>)
CallerValue == Obj("caller", 0, << >>)
TargetValue(t) == Obj(t, 0, << >>)

\* bool(v): None, the NOT_RESOLVED sentinel and instances of Empty are falsy.
Truthy(v) == v.by \notin {"None", "NOT_RESOLVED", "Empty"}

\* ------------------------------------------------------------------ state
DepIds == 1 .. MaxDeps
NoDep == [target |-> "free", cached |-> FALSE, autowire |-> FALSE, instance |-> None]

VARIABLES
  base,     \* _base_dependencies: key -> list of Dependency ids
  stacks,   \* the list objects held by _context_stack, named by their creator
  ctx,      \* per flow: value of _context_stack in the flow's context
  started,  \* per flow: has the flow been created
  heap,     \* Dependency objects: id -> target, cached, autowire, instance
  calls,    \* serial number of the last object a producer returned
  last,     \* the last call made on the container and what it returned
  depth,    \* history: per flow, enters minus exits
  owners,   \* history: per stack list, the flow that pushed each snapshot
  snap,     \* history: per flow, the active bindings seen at each open enter
  origin,   \* history: per Dependency id, who registered it and at what depth
  baseOut,  \* history: bindings of the base table after the last write made outside any scope
  gen,      \* the generator a resolve_all call returned and nobody has consumed yet
  legacy,   \* the single-binding container of _dependency_container.py: its dict, in insertion order
  decoBase,   \* _base_decorators: key -> list of decorators
  decoStacks, \* the list objects held by _decorator_stack, named as in stacks
  layers,     \* per object serial: the decorators wrapped around the object's class, outermost first
  lazy,       \* an object of an injected class with one lazy field, and the field's closure
  regs        \* three more registries, x, y and z = x.copy() or x + y, and their list objects

vars == << base, stacks, ctx, started, heap, calls, last, depth, owners, snap, origin, baseOut, legacy, gen,
           decoBase, decoStacks, layers, lazy, regs >>

\* What the calls on the bindings of the scope-aware container leave alone.
extra == << legacy, gen, decoBase, decoStacks, layers, lazy, regs >>

EmptyTable == [k \in {} |-> << >>]
NoOrigin == [flow |-> "none", scoped |-> FALSE]

\* The registries x and y as constructed, DependencyInjectionContainer(): each
\* table maps a key to a list object, named by its number in lists; z is not
\* made yet.  last is the last call made on one of them.
Containers == {"x", "y", "z"}
RegKeys == {"Logger", "Service"}
ListIds == 1 .. (Cardinality(Containers) * Cardinality(RegKeys))
NoRegCall == [op |-> "none", on |-> "x", err |-> ""]
NoRegistries ==
  [tabs |-> [c \in Containers |-> EmptyTable],
   lists |-> [i \in ListIds |-> << >>],
   kind |-> "none",
   last |-> NoRegCall]

\* value = self._Empty() of make_property: the field was never assigned.
EmptyValue == Obj("_Empty", 0, << >>)
\* No object constructed yet.  kind is the field's marker; value the closure's
\* variable; reads, produced and raised are history: the reads of the field
\* since construction, the producers those reads and the construction
\* invoked, and whether a read raised.
NoObject == [kind |-> "none", value |-> EmptyValue, reads |-> 0, produced |-> 0,
             raised |-> FALSE, assigned |-> FALSE, objs |-> 0, setOn |-> 0]

\* No generator: key is the key resolve_all was called with, flow the caller,
\* seen (history) the bindings the key had in the caller's active table at
\* the call.
NoGen == [key |-> "none", flow |-> "main", seen |-> << >>]

\* A call on the container: what was called with what, the values it returned
\* (out), the exception it raised (err) and the key its message names
\* (errKey), the producers it invoked in order (inv), and hit: for has the
\* answer, for register whether an equal Dependency was replaced, for exit
\* whether the popped table differed from the one underneath.
NoCall == [op |-> "none", flow |-> "main", key |-> "Logger", target |-> "none",
           cached |-> FALSE, autowire |-> FALSE, kw |-> << >>, dflt |-> None,
           out |-> << >>, hit |-> FALSE, err |-> "", errKey |-> "", inv |-> << >>]

Init ==
  /\ base = EmptyTable
  /\ stacks = [f \in Flows |-> << >>]
  /\ ctx = [f \in Flows |-> "none"]
  /\ started = [f \in Flows |-> f = "main"]
  /\ heap = [d \in DepIds |-> NoDep]
  /\ calls = 0
  /\ last = NoCall
  /\ depth = [f \in Flows |-> 0]
  /\ owners = [f \in Flows |-> << >>]
  /\ snap = [f \in Flows |-> << >>]
  /\ origin = [d \in DepIds |-> NoOrigin]
  /\ baseOut = EmptyTable
  /\ legacy = [keys |-> << >>, deps |-> << >>]
  /\ gen = NoGen
  /\ decoBase = EmptyTable
  /\ decoStacks = [f \in Flows |-> << >>]
  /\ layers = [n \in 1 .. MaxCalls |-> << >>]
  /\ lazy = NoObject
  /\ regs = NoRegistries

\* ------------------------------------------------------------ active table
Last(s) == s[Len(s)]
Front(s) == SubSeq(s, 1, Len(s) - 1)

\* The stack the flow's context holds, empty when the ContextVar is unset.
StackOf(f) == IF ctx[f] = "none" THEN << >> ELSE stacks[ctx[f]]

InScopeTable(f) == Len(StackOf(f)) > 0

\* property _dependencies
Active(f) == IF InScopeTable(f) THEN Last(StackOf(f)) ELSE base

\* Writing through the list objects of the active table.
BaseAlways(f, tab) == tab
BaseAfter(f, tab) == IF InScopeTable(f) THEN base ELSE tab
StacksAfter(f, tab) ==
  IF InScopeTable(f)
    THEN [stacks EXCEPT ![ctx[f]] = [@ EXCEPT ![Len(@)] = tab]]
    ELSE stacks

\* ------------------------------------------------------------ Dependency objects
TableRefs(tab) == UNION {{tab[k][i] : i \in 1 .. Len(tab[k])} : k \in DOMAIN tab}
Refs(b, st) ==
  TableRefs(b) \cup UNION {UNION {TableRefs(st[f][i]) : i \in 1 .. Len(st[f])} : f \in Flows}

\* Object identities are opaque: the live objects are numbered in the order
\* in which a walk over the base table and the stacks first meets them, and
\* objects no table refers to are reclaimed.
KeyOrder == << "Logger", "Service", "AnnLogger", "ClassVarT" >>
FlowOrder == << "main", "A", "B" >>

RECURSIVE Flatten(_)
Flatten(ss) == IF Len(ss) = 0 THEN << >> ELSE ss[1] \o Flatten(Tail(ss))

TableWalk(tab) ==
  Flatten([i \in 1 .. Len(KeyOrder) |->
             IF KeyOrder[i] \in DOMAIN tab THEN tab[KeyOrder[i]] ELSE << >>])
StackWalk(s) == Flatten([i \in 1 .. Len(s) |-> TableWalk(s[i])])
Walk(b, st) ==
  TableWalk(b) \o Flatten([i \in 1 .. Len(FlowOrder) |-> StackWalk(st[FlowOrder[i]])])

FirstAt(w, d) == CHOOSE i \in 1 .. Len(w) : w[i] = d /\ \A j \in 1 .. (i - 1) : w[j] # d
Rank(w, d) == Cardinality({w[i] : i \in 1 .. FirstAt(w, d)})

\* Tables renumbered by num, and the objects h and origins o moved to their
\* new numbers (old is the inverse of num).
Renumbered(b, st, h, o, num, old) ==
  [base |-> [k \in DOMAIN b |-> [i \in 1 .. Len(b[k]) |-> num[b[k][i]]]],
   stacks |-> [f \in Flows |-> [j \in 1 .. Len(st[f]) |->
                 [k \in DOMAIN st[f][j] |->
                    [i \in 1 .. Len(st[f][j][k]) |-> num[st[f][j][k][i]]]]]],
   heap |-> [n \in DepIds |-> IF n \in DOMAIN old THEN h[old[n]] ELSE NoDep],
   origin |-> [n \in DepIds |-> IF n \in DOMAIN old THEN o[old[n]] ELSE NoOrigin]]

Normalize(b, st, h, o) ==
  CHOOSE r \in
    {Renumbered(b, st, h, o, num,
                [n \in 1 .. Cardinality(DOMAIN num) |-> CHOOSE d \in DOMAIN num : num[d] = n]) :
       num \in {[d \in {w[i] : i \in 1 .. Len(w)} |-> Rank(w, d)] : w \in {Walk(b, st)}}} : TRUE

\* A new object needs room among the live ones; it is named 0 until the
\* walk numbers it.
HasRoom == Cardinality(Refs(base, stacks)) < MaxDeps
NewId == 0

\* P1 and P2 are two producer objects of a class whose __eq__ makes them
\* compare equal; every other producer is equal to itself only.
EqualProducers == {"P1", "P2"}

\* self.target == other.target
TargetEq(a, b) == a = b \/ (a \in EqualProducers /\ b \in EqualProducers)

\* Dependency.__eq__: equal targets.
IndexOfTarget(lst, t) ==
  IF \E i \in 1 .. Len(lst) : TargetEq(heap[lst[i]].target, t)
    THEN CHOOSE i \in 1 .. Len(lst) :
           /\ TargetEq(heap[lst[i]].target, t)
           /\ \A j \in 1 .. (i - 1) : ~TargetEq(heap[lst[j]].target, t)
    ELSE 0

RemoveAt(lst, i) == SubSeq(lst, 1, i - 1) \o SubSeq(lst, i + 1, Len(lst))

\* The bindings of a table as values: per key the (target, cached, autowire)
\* of each Dependency, in list order.
Binding(d) == [target |-> heap[d].target, cached |-> heap[d].cached, autowire |-> heap[d].autowire]
Bindings(tab) == [k \in DOMAIN tab |-> [i \in 1 .. Len(tab[k]) |-> Binding(tab[k][i])]]
BindingIn(h, d) == [target |-> h[d].target, cached |-> h[d].cached, autowire |-> h[d].autowire]
BindingsIn(h, tab) == [k \in DOMAIN tab |-> [i \in 1 .. Len(tab[k]) |-> BindingIn(h, tab[k][i])]]

\* ------------------------------------------------------------ calls and their results
Returned(op, f, k, t, kw, out, inv) ==
  [NoCall EXCEPT !.op = op, !.flow = f, !.key = k, !.target = t, !.kw = kw,
                 !.out = out, !.inv = inv]
Raised(op, f, k, t, kw, e, ek, inv) ==
  [NoCall EXCEPT !.op = op, !.flow = f, !.key = k, !.target = t, !.kw = kw,
                 !.err = e, !.errKey = ek, !.inv = inv]

\* A write of table tab, by flow f, through the active table, with heap h and
\* origins o; unreferenced Dependency objects are reclaimed.
Written(f, tab, h, o) ==
  \E n \in {Normalize(BaseAfter(f, tab), StacksAfter(f, tab), h, o)} :
     /\ base' = n.base
     /\ stacks' = n.stacks
     /\ heap' = n.heap
     /\ origin' = n.origin
     /\ baseOut' = IF depth[f] = 0 THEN BindingsIn(n.heap, n.base) ELSE baseOut
     /\ UNCHANGED << ctx, started, calls, depth, owners, snap >>
     /\ UNCHANGED extra

\* ------------------------------------------------------------ register
\* register_dependency on one list: an equal Dependency (same target) is
\* removed, then the new one is appended.
RegisterAppend(lst, t, d) == Append(lst, d)
RegisterInList(lst, t, d) ==
  LET i == IndexOfTarget(lst, t)
  IN Append(IF i > 0 THEN RemoveAt(lst, i) ELSE lst, d)

\* self._dependencies[name] on the defaultdict: a missing key reads as [].
ListOf(tab, k) == IF k \in DOMAIN tab THEN tab[k] ELSE << >>

WithList(tab, k, lst) == [x \in DOMAIN tab \cup {k} |-> IF x = k THEN lst ELSE tab[x]]
WithoutKey(tab, k) == [x \in DOMAIN tab \ {k} |-> tab[x]]

RejectedLate(op, f, k, t, e, ek) ==
  /\ last' = Raised(op, f, k, t, << >>, e, ek, << >>)
  /\ Written(f, WithoutKey(Active(f), k), heap, origin)

\* A call that raised before it changed anything.
Rejected(op, f, k, t, e, ek) ==
  /\ last' = Raised(op, f, k, t, << >>, e, ek, << >>)
  /\ UNCHANGED << base, stacks, ctx, started, heap, calls, depth, owners, snap, origin, baseOut >>
  /\ UNCHANGED extra

\* register(name, target, cached, autowired); target "NO_TARGET" registers
\* the key itself as the producer.
Register(f, k, t, c, a) ==
  /\ started[f]
  /\ t = "NO_TARGET" => k \in Targets \/ IsClassVar(k)
  /\ HasRoom
  /\ IF IsClassVar(k)
       THEN Rejected("register", f, k, "none", "TypeError", "")
       ELSE LET tgt == IF t = "NO_TARGET" THEN k ELSE t
                d == NewId
                tab == WithList(Active(f), k, RegisterInList(ListOf(Active(f), k), tgt, d))
                h == [n \in {d} \cup DepIds |->
                        IF n = d THEN [target |-> tgt, cached |-> c, autowire |-> a,
                                       instance |-> None]
                                 ELSE heap[n]]
                o == [n \in {d} \cup DepIds |->
                        IF n = d THEN [flow |-> f, scoped |-> depth[f] > 0] ELSE origin[n]]
            IN /\ Written(f, tab, h, o)
               /\ last' = [Returned("register", f, k, tgt, << >>, << >>, << >>)
                             EXCEPT !.cached = c, !.autowire = a,
                                    !.hit = IndexOfTarget(ListOf(Active(f), k), tgt) > 0]

\* ------------------------------------------------------------ remove
\* remove(name): every binding of the key.
Remove(f, k) ==
  /\ started[f]
  /\ IF k \notin DOMAIN Active(f)
       THEN Rejected("remove", f, k, "NO_TARGET", "ValueError", k)
       ELSE /\ Written(f, WithoutKey(Active(f), k), heap, origin)
            /\ last' = Returned("remove", f, k, "NO_TARGET", << >>, << >>, << >>)

\* list.remove(Dependency(target)): the first equal element goes.
RemoveNewest(lst, t) == SubSeq(lst, 1, Len(lst) - 1)
RemoveFromList(lst, t) == RemoveAt(lst, IndexOfTarget(lst, t))

\* remove(name, target): the binding of one producer; the key goes with its
\* last binding.
RemoveTarget(f, k, t) ==
  /\ started[f]
  /\ IF k \notin DOMAIN Active(f)
       THEN Rejected("remove", f, k, t, "ValueError", k)
       ELSE IF IndexOfTarget(Active(f)[k], t) = 0
         THEN Rejected("remove", f, k, t, "ValueError", k)
         ELSE LET lst == RemoveFromList(Active(f)[k], t)
                  tab == IF Len(lst) = 0 THEN WithoutKey(Active(f), k)
                                         ELSE WithList(Active(f), k, lst)
              IN /\ Written(f, tab, heap, origin)
                 /\ last' = Returned("remove", f, k, t, << >>, << >>, << >>)

\* ------------------------------------------------------------ decorators
\* property _decorators: the top of the flow's decorator stack, else the base.
DecoStackOf(f) == IF ctx[f] = "none" THEN << >> ELSE decoStacks[ctx[f]]
ActiveDecorators(f) ==
  IF Len(DecoStackOf(f)) > 0 THEN DecoStackOf(f)[Len(DecoStackOf(f))] ELSE decoBase

\* Decorator classes; "object" is a class that does not inherit from
\* ClassDecorator.
ClassDecorators == {"First", "Second", "Third"}

\* Writing through the list objects of the active decorators table.
DecoBaseAfter(f, tab) == IF Len(DecoStackOf(f)) > 0 THEN decoBase ELSE tab
DecoStacksAfter(f, tab) ==
  IF Len(DecoStackOf(f)) > 0
    THEN [decoStacks EXCEPT ![ctx[f]] = [@ EXCEPT ![Len(@)] = tab]]
    ELSE decoStacks

\* register_decorator(target_class, decorator_class): appended, duplicates
\* allowed.
RegisterDecorator(f, k, dec) ==
  /\ started[f]
  /\ IF dec \notin ClassDecorators
       THEN Rejected("register_decorator", f, k, dec, "TypeError", "")
       ELSE /\ Len(ListOf(ActiveDecorators(f), k)) < MaxDecos
            /\ LET tab == WithList(ActiveDecorators(f), k,
                                   Append(ListOf(ActiveDecorators(f), k), dec))
               IN /\ decoBase' = DecoBaseAfter(f, tab)
                  /\ decoStacks' = DecoStacksAfter(f, tab)
            /\ last' = Returned("register_decorator", f, k, dec, << >>, << >>, << >>)
            /\ UNCHANGED << base, stacks, ctx, started, heap, calls, depth, owners, snap, origin,
                            baseOut, legacy, gen, regs, layers, lazy >>

WrapOnce(st, decs) ==
  [st EXCEPT !.layers[st.val.n] =
     (IF \E i, j \in 1 .. Len(decs) : i < j /\ decs[i] = decs[j]
        THEN SubSeq(decs, 1, Len(decs) - 1)
        ELSE decs) \o @]

WrapReversed(st, decs) ==
  [st EXCEPT !.layers[st.val.n] = [i \in 1 .. Len(decs) |-> decs[Len(decs) + 1 - i]] \o @]

\* for decorator in reversed(decorators): result_class = decorator.decorate(...)
\* on a copy of the object's class: the first decorator of the list ends up
\* outermost, around the layers the class already has.
Wrap(st, decs) == [st EXCEPT !.layers[st.val.n] = decs \o @]

\* _apply_decorators(resolved, name); the class of a value of a builtin type
\* cannot be reassigned (TypeError).
ApplyDecorators(st, tab, name) ==
  IF st.val = None \/ Len(ListOf(tab, name)) = 0
    THEN st
    ELSE IF st.val.n = 0
      THEN [st EXCEPT !.err = "TypeError"]
      ELSE Wrap(st, ListOf(tab, name))

\* The decorators are applied to what the Resolver returned unless it is the
\* unresolved value.
Decorated(st, tab, name, unres) ==
  IF st.err # "" \/ st.val = unres THEN st ELSE ApplyDecorators(st, tab, name)

\* ------------------------------------------------------------ scopes
\* __enter__: a copy of the active table, each list copied, is pushed on the
\* flow's stack; _dep_cp creates the stack when the ContextVar is unset.
EmptyCopy(tab) == EmptyTable
CopyTable(tab) == [k \in DOMAIN tab |-> tab[k]]

Enter(f) ==
  /\ started[f]
  /\ Len(StackOf(f)) < MaxDepth
  /\ LET sid == IF ctx[f] = "none" THEN f ELSE ctx[f]
     IN /\ ctx' = [ctx EXCEPT ![f] = sid]
        /\ stacks' = [stacks EXCEPT ![sid] = Append(StackOf(f), CopyTable(Active(f)))]
        /\ decoStacks' = [decoStacks EXCEPT ![sid] =
                            Append(DecoStackOf(f), CopyTable(ActiveDecorators(f)))]
  /\ depth' = [depth EXCEPT ![f] = @ + 1]
  /\ owners' = [owners EXCEPT ![IF ctx[f] = "none" THEN f ELSE ctx[f]] = Append(@, f)]
  /\ snap' = [snap EXCEPT ![f] = Append(@, Bindings(Active(f)))]
  /\ last' = Returned("enter", f, "Logger", "none", << >>, << >>, << >>)
  /\ UNCHANGED << base, started, heap, calls, origin, baseOut >>
  /\ UNCHANGED << legacy, gen, regs, decoBase, layers, lazy >>

\* __exit__: the top of the flow's stack is popped, if there is one.
KeepStack(s) == s
PopStack(s) == IF Len(s) > 0 THEN Front(s) ELSE s

\* What __exit__ returns when the block ended with exception exc ("" for a
\* block that ended normally), and what the with statement then lets through
\* to the caller: a true return value swallows the exception.
ExitSuppresses(exc) == exc # ""
ExitResult(exc) == FALSE
Propagated(exc) == IF ExitResult(exc) THEN "" ELSE exc

\* Exceptions a block may end with.
BlockExceptions == {"", "KeyError"}

ExitWith(f, exc) ==
  /\ started[f]
  /\ depth[f] > 0
  /\ \E n \in {Normalize(base,
                            IF ctx[f] = "none" THEN stacks
                            ELSE [stacks EXCEPT ![ctx[f]] = PopStack(@)],
                            heap, origin)} :
        /\ base' = n.base
        /\ stacks' = n.stacks
        /\ heap' = n.heap
        /\ origin' = n.origin
  /\ decoStacks' = IF ctx[f] = "none" THEN decoStacks
                   ELSE [decoStacks EXCEPT ![ctx[f]] = PopStack(@)]
  /\ depth' = [depth EXCEPT ![f] = @ - 1]
  /\ owners' = IF ctx[f] = "none" THEN owners ELSE [owners EXCEPT ![ctx[f]] = PopStack(@)]
  /\ snap' = [snap EXCEPT ![f] = Front(@)]
  /\ last' = [Returned("exit", f, "Logger", IF exc = "" THEN "none" ELSE exc,
                       << >>, << >>, << >>)
                EXCEPT !.err = Propagated(exc),
                       !.hit = /\ InScopeTable(f)
                               /\ Bindings(Active(f)) #
                                    Bindings(IF Len(StackOf(f)) > 1
                                               THEN StackOf(f)[Len(StackOf(f)) - 1]
                                               ELSE base)]
  /\ UNCHANGED << ctx, started, calls, baseOut >>
  /\ UNCHANGED << legacy, gen, regs, decoBase, layers, lazy >>

\* The end of a block that raised nothing.
Exit(f) == ExitWith(f, "")

\* ------------------------------------------------------------ flows
\* asyncio.gather of two coroutines awaited by flow p: each child task runs
\* in a copy of p's context, so its _context_stack holds the very list object
\* p's context holds (when p has one).
SpawnTasks(p) ==
  /\ started[p] /\ \A c \in Children : ~started[c]
  /\ started' = [f \in Flows |-> TRUE]
  /\ ctx' = [f \in Flows |-> ctx[p]]
  /\ last' = Returned("spawn", p, "Logger", "none", << >>, << >>, << >>)
  /\ UNCHANGED << base, stacks, heap, calls, depth, owners, snap, origin, baseOut >>
  /\ UNCHANGED extra

\* Two threads started and joined by flow p: each starts in an empty
\* context, _context_stack unset.
SpawnThreads(p) ==
  /\ started[p] /\ \A c \in Children : ~started[c]
  /\ started' = [f \in Flows |-> TRUE]
  /\ last' = Returned("spawn", p, "Logger", "none", << >>, << >>, << >>)
  /\ UNCHANGED << base, stacks, ctx, heap, calls, depth, owners, snap, origin, baseOut >>
  /\ UNCHANGED extra

\* The spawning flow waits for its children; a child runs once spawned.
Running(f) == IF f \in Children THEN started[f] ELSE \A c \in Children : ~started[c]

\* ------------------------------------------------------------ producers
\* The running state of one call on the container: the Dependency objects,
\* the object serial, the producers invoked so far, the value in hand and the
\* exception in flight.
Run(h, c) ==
  [heap |-> h, calls |-> c, inv |-> << >>, val |-> None, err |-> "", layers |-> layers]

KwNames(kw) == {kw[i][1] : i \in 1 .. Len(kw)}
KwGet(kw, n) == kw[CHOOSE i \in 1 .. Len(kw) : kw[i][1] = n][2]

\* annotation_kwargs.update(kwargs)
MergeKw(acc, kw) ==
  [i \in 1 .. Len(acc) |->
     IF acc[i][1] \in KwNames(kw) THEN << acc[i][1], KwGet(kw, acc[i][1]) >> ELSE acc[i]]
  \o SelectSeq(kw, LAMBDA e : e[1] \notin KwNames(acc))

ParamNames(t) == {Params(t)[i].name : i \in 1 .. Len(Params(t))}
RequiredNames(t) == {Params(t)[i].name : i \in {j \in 1 .. Len(Params(t)) : Params(t)[j].required}}

\* The exception the body of a producer raises, "" when it returns.
\* BrokenRepo is a class BrokenRepo(Repo[User]) whose __init__(self) raises
\* AttributeError.
Raises(t) == IF t = "BrokenRepo" THEN "AttributeError" ELSE ""

\* target(**kw): a new object, or TypeError when a required parameter is
\* missing or a keyword is not a parameter of the producer, or the exception
\* of the producer's body.
Invoke(st, t, kw) ==
  IF KwNames(kw) \subseteq ParamNames(t) /\ RequiredNames(t) \subseteq KwNames(kw)
    THEN IF Raises(t) # ""
      THEN [st EXCEPT !.err = Raises(t), !.inv = Append(@, t)]
      ELSE [st EXCEPT !.calls = @ + 1, !.val = Obj(t, st.calls + 1, kw), !.inv = Append(@, t)]
    ELSE [st EXCEPT !.err = "TypeError", !.inv = Append(@, t)]

\* Dependency.resolve
DepResolve(st, d, kw) ==
  IF st.heap[d].cached /\ Truthy(st.heap[d].instance)
    THEN [st EXCEPT !.val = st.heap[d].instance]
    ELSE IF Callable(st.heap[d].target)
      THEN LET r == Invoke(st, st.heap[d].target, kw)
           IN IF r.err = "" THEN [r EXCEPT !.heap[d].instance = r.val] ELSE r
      ELSE [st EXCEPT !.val = TargetValue(st.heap[d].target),
                      !.heap[d].instance = TargetValue(st.heap[d].target)]

\* ------------------------------------------------------------ Resolver
\* dependencies.get(name), falling back to the annotated type's origin.
Lookup(tab, name) ==
  IF Len(ListOf(tab, name)) = 0 /\ IsAnnotated(name)
    THEN ListOf(tab, AnnotatedBase(name))
    ELSE ListOf(tab, name)

\* dependencies_list[-1]
PickOldest(lst) == lst[1]
PickBinding(lst) == lst[Len(lst)]

RECURSIVE ResolveKey(_, _, _, _, _, _)
RECURSIVE WireParams(_, _, _, _, _, _, _, _)

WireNone(tab, st, ps, i, kw, acc, path, unres) == [st |-> st, kw |-> acc]

WireEager(tab, st, ps, i, kw, acc, path, unres) ==
  IF Len(ps) = 0 \/ ps[1].type \notin DOMAIN tab
    THEN [st |-> st, kw |-> acc]
    ELSE LET r == ResolveKey(tab, st, ps[1].type, << >>, path, unres)
         IN [st |-> r, kw |-> << << ps[1].name, r.val >> >>]

\* The loop over the producer's parameters: a parameter whose annotation is a
\* key of the table gets the caller's value or a recursively resolved one.
WireParams(tab, st, ps, i, kw, acc, path, unres) ==
  IF i > Len(ps) \/ st.err # ""
    THEN [st |-> st, kw |-> acc]
    ELSE IF ps[i].type \in DOMAIN tab
      THEN IF ps[i].name \in KwNames(kw)
        THEN WireParams(tab, st, ps, i + 1, kw,
                        Append(acc, << ps[i].name, KwGet(kw, ps[i].name) >>), path, unres)
        ELSE LET r == ResolveKey(tab, st, ps[i].type, << >>, path, unres)
             IN WireParams(tab, r, ps, i + 1, kw,
                           Append(acc, << ps[i].name, r.val >>), path, unres)
      ELSE WireParams(tab, st, ps, i + 1, kw, acc, path, unres)

\* Resolver.resolve.  path holds the keys whose resolution without caller
\* kwargs is in progress: meeting one again never ends (RecursionError).
ResolveKey(tab, st, name, kw, path, unres) ==
  LET lst == Lookup(tab, name)
  IN IF Len(lst) = 0
       THEN [st EXCEPT !.val = unres]
       ELSE LET d == PickBinding(lst)
                t == st.heap[d].target
            IN IF ~st.heap[d].autowire
                 THEN DepResolve(st, d, << >>)
                 ELSE IF kw = << >> /\ name \in path
                   THEN [st EXCEPT !.err = "RecursionError"]
                   ELSE LET w == WireParams(tab, st, IF Callable(t) THEN Params(t) ELSE << >>,
                                            1, kw, << >>,
                                            IF kw = << >> THEN path \cup {name} ELSE path,
                                            unres)
                        IN IF w.st.err # ""
                             THEN w.st
                             ELSE DepResolve(w.st, d, MergeKw(w.kw, kw))

\* The caller's keyword arguments.
KwInputs == {<< >>, << << "log", CallerValue >> >>}

\* The state a call leaves behind.
Ran(r) ==
  /\ \A n \in DOMAIN r.layers : Len(r.layers[n]) <= MaxLayers
  /\ heap' = r.heap
  /\ calls' = r.calls
  /\ layers' = r.layers
  /\ UNCHANGED << base, stacks, ctx, started, depth, owners, snap, origin, baseOut >>
  /\ UNCHANGED << legacy, gen, regs, decoBase, decoStacks >>

ResolvedUnchecked(f, k, kw, r) ==
  IF r.err # ""
    THEN Raised("resolve", f, k, "none", kw, r.err, "", r.inv)
    ELSE Returned("resolve", f, k, "none", kw, << r.val >>, r.inv)

\* What resolve hands to its caller from the Resolver's run r: the run's
\* exception, ValueError naming the key for NOT_RESOLVED, else the value.
Resolved(f, k, kw, r) ==
  IF r.err # ""
    THEN Raised("resolve", f, k, "none", kw, r.err, "", r.inv)
    ELSE IF r.val = NOT_RESOLVED
      THEN Raised("resolve", f, k, "none", kw, "ValueError", k, r.inv)
      ELSE Returned("resolve", f, k, "none", kw, << r.val >>, r.inv)

\* What resolve_optional hands to its caller: the value or the default.
ResolvedOptional(f, k, kw, r) ==
  IF r.err # ""
    THEN Raised("resolve_optional", f, k, "none", kw, r.err, "", r.inv)
    ELSE Returned("resolve_optional", f, k, "none", kw, << r.val >>, r.inv)

\* resolve(name, **kwargs): raises when the Resolver hands back NOT_RESOLVED.
Resolve(f, k, kw) ==
  /\ started[f]
  /\ \E r \in {Decorated(ResolveKey(Active(f), Run(heap, calls), k, kw, {}, NOT_RESOLVED),
                          ActiveDecorators(f), k, NOT_RESOLVED)} :
        /\ r.calls <= MaxCalls
        /\ Ran(r)
        /\ last' = Resolved(f, k, kw, r)
        /\ UNCHANGED lazy

\* resolve_optional(name, unresolved_value, **kwargs)
ResolveOptional(f, k, dflt, kw) ==
  /\ started[f]
  /\ \E r \in {Decorated(ResolveKey(Active(f), Run(heap, calls), k, kw, {}, dflt),
                          ActiveDecorators(f), k, dflt)} :
        /\ r.calls <= MaxCalls
        /\ Ran(r)
        /\ last' = [ResolvedOptional(f, k, kw, r) EXCEPT !.dflt = dflt]
        /\ UNCHANGED lazy

\* __contains__
Contains(tab, k) == k \in DOMAIN tab /\ Len(tab[k]) > 0

Has(f, k) ==
  /\ started[f]
  /\ last' = [Returned("has", f, k, "none", << >>, << >>, << >>)
                EXCEPT !.hit = Contains(Active(f), k)]
  /\ UNCHANGED << base, stacks, ctx, started, heap, calls, depth, owners, snap, origin, baseOut >>
  /\ UNCHANGED extra

\* dependencies[k]: the view is a mappingproxy of the active defaultdict, so
\* indexing it with a missing key stores and returns a new empty list.
ViewLookup(f, k) ==
  /\ started[f]
  /\ Written(f, WithList(Active(f), k, ListOf(Active(f), k)), heap, origin)
  /\ last' = [Returned("lookup", f, k, "none", << >>, << >>, << >>)
                EXCEPT !.hit = k \in DOMAIN Active(f)]

\* ------------------------------------------------------------ resolve_all
\* reversed(dependencies_list)
Unreversed(lst) == lst
Reversed(lst) == [i \in 1 .. Len(lst) |-> lst[Len(lst) + 1 - i]]

RECURSIVE AllWire(_, _, _, _, _, _, _)

\* The generator's loop over the producer's parameters: a parameter whose
\* annotation is a key of the table gets the caller's value or that of
\* resolve_optional(annotation).
AllWire(tab, decs, st, ps, i, kw, acc) ==
  IF i > Len(ps) \/ st.err # ""
    THEN [st |-> st, kw |-> acc]
    ELSE IF ps[i].type \in DOMAIN tab
      THEN IF ps[i].name \in KwNames(kw)
        THEN AllWire(tab, decs, st, ps, i + 1, kw,
                     Append(acc, << ps[i].name, KwGet(kw, ps[i].name) >>))
        ELSE LET r == Decorated(ResolveKey(tab, st, ps[i].type, << >>, {}, None),
                                decs, ps[i].type, None)
             IN AllWire(tab, decs, r, ps, i + 1, kw, Append(acc, << ps[i].name, r.val >>))
      ELSE AllWire(tab, decs, st, ps, i + 1, kw, acc)

RECURSIVE AllFrom(_, _, _, _, _, _, _)

\* The generator's loop over the Dependency ids in seq, from index i on; out
\* holds the values yielded so far.
AllFrom(tab, decs, st, seq, i, kw, out) ==
  IF i > Len(seq) \/ st.err # ""
    THEN [st |-> st, out |-> out]
    ELSE LET d == seq[i]
             t == st.heap[d].target
         IN IF ~st.heap[d].autowire
              THEN LET r == DepResolve(st, d, << >>)
                   IN AllFrom(tab, decs, r, seq, i + 1, kw,
                              IF r.err = "" THEN Append(out, r.val) ELSE out)
              ELSE IF ~Callable(t)
                THEN AllFrom(tab, decs, st, seq, i + 1, kw, Append(out, TargetValue(t)))
                ELSE LET w == AllWire(tab, decs, st, Params(t), 1, kw, << >>)
                         r == IF w.st.err # "" THEN w.st
                              ELSE DepResolve(w.st, d, MergeKw(w.kw, kw))
                     IN AllFrom(tab, decs, r, seq, i + 1, kw,
                                IF r.err = "" THEN Append(out, r.val) ELSE out)

\* resolve_all(name, **kwargs), the generator run to its end by the caller.
ResolveAll(f, k, kw) ==
  /\ started[f]
  /\ \E a \in {AllFrom(Active(f), ActiveDecorators(f), Run(heap, calls),
                       Reversed(Lookup(Active(f), k)), 1, kw, << >>)} :
        /\ a.st.calls <= MaxCalls
        /\ Ran(a.st)
        /\ last' = [Returned("resolve_all", f, k, "none", kw, a.out, a.st.inv)
                      EXCEPT !.err = a.st.err]
        /\ UNCHANGED lazy

\* resolve_all(name) called and its generator kept: a generator function
\* runs none of its body at the call, not even the lookup of the list.
ResolveAllCall(f, k) ==
  /\ started[f]
  /\ gen.key = "none"
  /\ gen' = [key |-> k, flow |-> f, seen |-> ListOf(Bindings(Active(f)), k)]
  /\ last' = Returned("resolve_all_call", f, k, "none", << >>, << >>, << >>)
  /\ UNCHANGED << base, stacks, ctx, started, heap, calls, depth, owners, snap, origin, baseOut >>
  /\ UNCHANGED << legacy, decoBase, decoStacks, layers, lazy, regs >>

\* The kept generator run to its end by the flow that obtained it: the body
\* starts now, with the table that is active now.
Consume(f) ==
  /\ started[f]
  /\ gen.key # "none" /\ gen.flow = f
  /\ \E a \in {AllFrom(Active(f), ActiveDecorators(f), Run(heap, calls),
                       Reversed(Lookup(Active(f), gen.key)), 1, << >>, << >>)} :
        /\ a.st.calls <= MaxCalls
        /\ heap' = a.st.heap
        /\ calls' = a.st.calls
        /\ layers' = a.st.layers
        /\ last' = [Returned("consume", f, gen.key, "none", << >>, a.out, a.st.inv)
                      EXCEPT !.err = a.st.err]
  /\ gen' = NoGen
  /\ UNCHANGED << base, stacks, ctx, started, depth, owners, snap, origin, baseOut >>
  /\ UNCHANGED << legacy, regs, decoBase, decoStacks, lazy >>

\* ------------------------------------------------------------ lazy fields
\* An injected class with one field, log: Annotated[Logger, kind], kind Lazy
\* or OptionalLazy, and no field default.
FieldKinds == {"Lazy", "OptionalLazy"}
FieldType == "Logger"

\* The generated __init__ called without arguments: lazy fields are left out
\* of the signature that inject wires, and a missing field that is a property
\* of the class is left to the property.  The class is decorated and the
\* property made just before, so the closure starts empty.
Construct(f, kind) ==
  /\ started[f]
  /\ lazy' = [NoObject EXCEPT !.kind = kind, !.objs = 1]
  /\ last' = Returned("construct", f, FieldType, kind, << >>, << >>, << >>)
  /\ UNCHANGED << base, stacks, ctx, started, heap, calls, depth, owners, snap, origin, baseOut >>
  /\ UNCHANGED << legacy, gen, regs, decoBase, decoStacks, layers >>

\* The property's setter, called with a value of the caller.
SetField(f) ==
  /\ started[f]
  /\ lazy.kind # "none"
  /\ lazy' = [lazy EXCEPT !.value = CallerValue, !.assigned = TRUE, !.setOn = lazy.objs]
  /\ last' = Returned("set", f, FieldType, lazy.kind, << >>, << >>, << >>)
  /\ UNCHANGED << base, stacks, ctx, started, heap, calls, depth, owners, snap, origin, baseOut >>
  /\ UNCHANGED << legacy, gen, regs, decoBase, decoStacks, layers >>

\* A second object of the same class, constructed without arguments: the
\* property belongs to the class, so the new object reads and writes the
\* closure the first one uses.  The field is from now on that of the new
\* object.
ConstructAnother(f) ==
  /\ started[f]
  /\ lazy.objs = 1
  /\ lazy' = [lazy EXCEPT !.objs = 2, !.reads = 0]
  /\ last' = Returned("construct", f, FieldType, lazy.kind, << >>, << >>, << >>)
  /\ UNCHANGED << base, stacks, ctx, started, heap, calls, depth, owners, snap, origin, baseOut >>
  /\ UNCHANGED << legacy, gen, regs, decoBase, decoStacks, layers >>

\* isinstance(value, validated_type) of validate_arg, with validate on.
IsInstance(v, type) == v.by = type
Validated(c, type) ==
  IF c.err = "" /\ ~IsInstance(c.out[1], type)
    THEN [c EXCEPT !.err = "TypeError", !.out = << >>]
    ELSE c

GetterStrict(f, r) ==
  [value |-> lazy.value, call |-> Validated(Resolved(f, FieldType, << >>, r), FieldType)]

\* What the getter leaves in the closure and hands to the reader, from the
\* container's run r: PropertyMaker resolves and validates, OptionalPropertyMaker
\* resolves with None for an unresolved key; neither assigns value.
Getter(f, r) ==
  IF lazy.kind = "Lazy"
    THEN [value |-> lazy.value, call |-> Validated(Resolved(f, FieldType, << >>, r), FieldType)]
    ELSE [value |-> lazy.value, call |-> ResolvedOptional(f, FieldType, << >>, r)]

\* Reading the field: the assigned value if there is one, else the container
\* is asked.
ReadField(f) ==
  /\ started[f]
  /\ lazy.kind # "none"
  /\ lazy.reads < MaxReads
  /\ IF lazy.value # EmptyValue
       THEN /\ last' = Returned("read", f, FieldType, lazy.kind, << >>, << lazy.value >>, << >>)
            /\ lazy' = [lazy EXCEPT !.reads = @ + 1]
            /\ UNCHANGED << base, stacks, ctx, started, heap, calls, depth, owners, snap, origin,
                            baseOut >>
            /\ UNCHANGED << legacy, gen, regs, decoBase, decoStacks, layers >>
       ELSE \E r \in {Decorated(ResolveKey(Active(f), Run(heap, calls), FieldType, << >>, {},
                                           IF lazy.kind = "Lazy" THEN NOT_RESOLVED ELSE None),
                                ActiveDecorators(f), FieldType,
                                IF lazy.kind = "Lazy" THEN NOT_RESOLVED ELSE None)} :
              /\ r.calls <= MaxCalls
              /\ Ran(r)
              /\ \E g \in {Getter(f, r)} :
                    /\ last' = [g.call EXCEPT !.op = "read", !.target = lazy.kind]
                    /\ lazy' = [lazy EXCEPT !.value = g.value,
                                            !.reads = @ + 1,
                                            !.produced = @ + Len(r.inv),
                                            !.raised = @ \/ g.call.err # ""]

\* ------------------------------------------------------------ copy and __add__
\* Registries outside any scope, their tables holding list objects that two
\* registries may share.  A list holds Dependency values: target, cached,
\* autowire.
Made(c) == c # "z" \/ regs.kind # "none"

\* The table of registry c with each list object replaced by its content.
RegView(r, c) == [k \in DOMAIN r.tabs[c] |-> r.lists[r.tabs[c][k]]]

UsedLists(tabs) == UNION {{tabs[c][k] : k \in DOMAIN tabs[c]} : c \in Containers}
\* A list object no table holds: list() of the defaultdict.
FreeList(tabs) ==
  CHOOSE i \in ListIds \ UsedLists(tabs) : \A j \in ListIds \ UsedLists(tabs) : i <= j
\* List objects no table holds are reclaimed.
Collected(r) ==
  [r EXCEPT !.lists = [i \in ListIds |-> IF i \in UsedLists(r.tabs) THEN r.lists[i] ELSE << >>]]

\* Dependency.__eq__ compares targets: the first equal element of a list.
IndexOfEqual(lst, t) ==
  IF \E i \in 1 .. Len(lst) : lst[i].target = t
    THEN CHOOSE i \in 1 .. Len(lst) :
           /\ lst[i].target = t
           /\ \A j \in 1 .. (i - 1) : lst[j].target # t
    ELSE 0

\* The registries after a call that left them as r.
Settled(r) == \E q \in {r} : regs' = Collected(q)

\* What a call on one of the registries leaves alone.
RegFrame ==
  /\ UNCHANGED << base, stacks, ctx, started, heap, calls, last, depth, owners, snap, origin, baseOut >>
  /\ UNCHANGED << legacy, gen, decoBase, decoStacks, layers, lazy >>

RegCall(op, c, e) == [op |-> op, on |-> c, err |-> e]

\* register on registry c: the list under the key, made by the defaultdict
\* when the key is missing, is changed in place.
RegRegister(c, k, t, ca, aw) ==
  /\ Made(c)
  /\ IF IsClassVar(k)
       THEN regs' = [regs EXCEPT !.last = RegCall("register", c, "TypeError")]
       ELSE LET tgt == IF t = "NO_TARGET" THEN k ELSE t
                id == IF k \in DOMAIN regs.tabs[c] THEN regs.tabs[c][k] ELSE FreeList(regs.tabs)
                lst == regs.lists[id]
                i == IndexOfEqual(lst, tgt)
                new == Append(IF i > 0 THEN RemoveAt(lst, i) ELSE lst,
                              [target |-> tgt, cached |-> ca, autowire |-> aw])
            IN Settled([regs EXCEPT !.tabs[c] = WithList(@, k, id),
                                              !.lists[id] = new,
                                              !.last = RegCall("register", c, "")])
  /\ RegFrame

\* remove(name) on registry c: del of the key; the list object is untouched.
RegRemove(c, k) ==
  /\ Made(c)
  /\ IF k \notin DOMAIN regs.tabs[c]
       THEN regs' = [regs EXCEPT !.last = RegCall("remove", c, "ValueError")]
       ELSE Settled([regs EXCEPT !.tabs[c] = WithoutKey(@, k),
                                           !.last = RegCall("remove", c, "")])
  /\ RegFrame

\* remove(name, target) on registry c: list.remove in place, then del of the
\* key in c's table when the list became empty.
RegRemoveTarget(c, k, t) ==
  /\ Made(c)
  /\ IF k \notin DOMAIN regs.tabs[c]
       THEN regs' = [regs EXCEPT !.last = RegCall("remove", c, "ValueError")]
       ELSE LET id == regs.tabs[c][k]
                i == IndexOfEqual(regs.lists[id], t)
            IN IF i = 0
                 THEN regs' = [regs EXCEPT !.last = RegCall("remove", c, "ValueError")]
                 ELSE LET lists == [regs.lists EXCEPT ![id] = RemoveAt(@, i)]
                          tabs == IF Len(lists[id]) = 0
                                    THEN [regs.tabs EXCEPT ![c] = WithoutKey(@, k)]
                                    ELSE regs.tabs
                      IN Settled([regs EXCEPT !.tabs = tabs,
                                                        !.lists = lists,
                                                        !.last = RegCall("remove", c, "")])
  /\ RegFrame

\* dict(self.dependencies): a new dict holding the same list objects.
DictOf(tab) == [k \in DOMAIN tab |-> tab[k]]

\* z = x.copy()
Copy ==
  /\ regs.kind = "none"
  /\ Settled([regs EXCEPT !.tabs["z"] = DictOf(regs.tabs["x"]),
                                    !.kind = "copy",
                                    !.last = RegCall("copy", "x", "")])
  /\ RegFrame

\* {**other.dependencies, **self.dependencies}
MergedOtherWins(self, other) ==
  [k \in DOMAIN other \cup DOMAIN self |-> IF k \in DOMAIN other THEN other[k] ELSE self[k]]
Merged(self, other) ==
  [k \in DOMAIN other \cup DOMAIN self |-> IF k \in DOMAIN self THEN self[k] ELSE other[k]]

\* z = x + y
Add ==
  /\ regs.kind = "none"
  /\ Settled([regs EXCEPT !.tabs["z"] = Merged(regs.tabs["x"], regs.tabs["y"]),
                                    !.kind = "add",
                                    !.last = RegCall("add", "x", "")])
  /\ RegFrame

\* What has, resolve (by the Dependency it picks) and resolve_all (by the
\* Dependencies it yields from, in order) answer on registry c, per key.
Observed(r, c) ==
  [k \in RegKeys |->
     [has |-> Contains(RegView(r, c), k),
      resolve |-> IF Len(Lookup(RegView(r, c), k)) = 0
                    THEN << >>
                    ELSE << PickBinding(Lookup(RegView(r, c), k)) >>,
      all |-> Reversed(Lookup(RegView(r, c), k))]]

\* ------------------------------------------------------------ the single-binding container
\* _dependency_container.py: one Dependency per key, and a generic-key
\* fallback in resolve_optional.  Its keys: Repo is class Repo(Generic[T]) with
\* __init__(self, value: T); RepoUser is Repo[User]; UserRepo is a class
\* UserRepo(Repo[User]) without constructor parameters; NeedyRepo is a class
\* NeedyRepo(Repo[User]) with __init__(self, dep: Dep); BrokenRepo is a class
\* BrokenRepo(Repo[User]) whose constructor raises; User and Dep are classes
\* without constructor parameters.
LegacyKeys == {"RepoUser", "Repo", "UserRepo", "NeedyRepo", "BrokenRepo", "User", "Dep"}

\* get_origin(name), get_args(name)
Origin(k) == IF k = "RepoUser" THEN "Repo" ELSE "none"
TypeArgs(k) == IF k = "RepoUser" THEN << "User" >> ELSE << >>

\* isinstance(registered_type, type), and the __orig_bases__ of a class that
\* are parameterized keys.
IsType(k) == k # "RepoUser"
OrigBases(k) == IF k \in {"UserRepo", "NeedyRepo", "BrokenRepo"} THEN {"RepoUser"} ELSE {}

\* with suppress(TypeError, AttributeError)
Suppressed == {"TypeError", "AttributeError"}

LegacyIndex(keys, k) ==
  IF \E i \in 1 .. Len(keys) : keys[i] = k
    THEN CHOOSE i \in 1 .. Len(keys) : keys[i] = k
    ELSE 0
LegacyHas(keys, k) == LegacyIndex(keys, k) > 0

\* factory(*args): the arguments bind to the parameters in order.
InvokePositional(st, t, args) ==
  IF ~Callable(t) \/ Len(args) > Len(Params(t))
    THEN [st EXCEPT !.err = "TypeError", !.inv = Append(@, t)]
    ELSE Invoke(st, t, [i \in 1 .. Len(args) |-> << Params(t)[i].name, args[i] >>])

RECURSIVE LegacyResolveOptional(_, _, _, _, _)
RECURSIVE LegacySearch(_, _, _, _, _, _)
RECURSIVE LegacyArgs(_, _, _, _, _, _)
RECURSIVE LegacyWire(_, _, _, _, _, _)

\* Step 1 of the fallback: the registered classes, in insertion order, that
\* declare name as a generic base; the first whose resolution does not raise
\* a suppressed exception answers.
LegacySearch(keys, st, name, kw, i, path) ==
  IF i > Len(keys)
    THEN [st |-> st, found |-> FALSE]
    ELSE IF IsType(keys[i]) /\ name \in OrigBases(keys[i])
      THEN LET r == LegacyResolveOptional(keys, st, keys[i], kw, path)
           IN IF r.err \in Suppressed
                THEN LegacySearch(keys, [r EXCEPT !.err = ""], name, kw, i + 1, path)
                ELSE [st |-> r, found |-> TRUE]
      ELSE LegacySearch(keys, st, name, kw, i + 1, path)

\* [self.resolve_optional(arg) or arg() for arg in get_args(name)]
LegacyArgs(keys, st, args, i, acc, path) ==
  IF i > Len(args) \/ st.err # ""
    THEN [st |-> st, vals |-> acc]
    ELSE LET r == LegacyResolveOptional(keys, st, args[i], << >>, path)
             v == IF r.err # "" \/ Truthy(r.val) THEN r ELSE Invoke(r, args[i], << >>)
         IN LegacyArgs(keys, v, args, i + 1, Append(acc, v.val), path)

\* The parameters whose annotation is a registered key are resolved, whether
\* or not the caller supplied them.
LegacyWire(keys, st, ps, i, acc, path) ==
  IF i > Len(ps) \/ st.err # ""
    THEN [st |-> st, kw |-> acc]
    ELSE IF LegacyHas(keys, ps[i].type)
      THEN LET r == LegacyResolveOptional(keys, st, ps[i].type, << >>, path)
           IN LegacyWire(keys, r, ps, i + 1, Append(acc, << ps[i].name, r.val >>), path)
      ELSE LegacyWire(keys, st, ps, i + 1, acc, path)

\* resolve_optional(name, **kwargs); st.heap[i] is the Dependency of keys[i].
LegacyResolveOptional(keys, st, name, kw, path) ==
  IF ~LegacyHas(keys, name)
    THEN IF Origin(name) = "none"
      THEN [st EXCEPT !.val = None]
      ELSE LET s == LegacySearch(keys, st, name, kw, 1, path)
           IN IF s.found
                THEN s.st
                ELSE LET factory == IF LegacyHas(keys, Origin(name))
                                      THEN s.st.heap[LegacyIndex(keys, Origin(name))].target
                                      ELSE Origin(name)
                         a == LegacyArgs(keys, s.st, TypeArgs(name), 1, << >>, path)
                     IN IF a.st.err # ""
                          THEN a.st
                          ELSE IF \A j \in 1 .. Len(a.vals) : Truthy(a.vals[j])
                            THEN InvokePositional(a.st, factory, a.vals)
                            ELSE [a.st EXCEPT !.val = None]
    ELSE LET d == LegacyIndex(keys, name)
             t == st.heap[d].target
         IN IF ~st.heap[d].autowire
              THEN DepResolve(st, d, << >>)
              ELSE IF ~Callable(t)
                THEN [st EXCEPT !.err = "TypeError"]
                ELSE IF name \in path
                  THEN [st EXCEPT !.err = "RecursionError"]
                  ELSE LET w == LegacyWire(keys, st, Params(t), 1, << >>, path \cup {name})
                       IN IF w.st.err # ""
                            THEN w.st
                            ELSE DepResolve(w.st, d, MergeKw(w.kw, kw))

\* register(name, target, cached, autowired): the key's Dependency is
\* replaced in place, a new key goes last.
LegacyRegister(k, t, c, a) ==
  /\ LegacyHas(legacy.keys, k) \/ Len(legacy.keys) < MaxDeps
  /\ LET dep == [target |-> IF t = "NO_TARGET" THEN k ELSE t, cached |-> c,
                 autowire |-> a, instance |-> None]
         i == LegacyIndex(legacy.keys, k)
     IN legacy' = IF i > 0
                    THEN [legacy EXCEPT !.deps[i] = dep]
                    ELSE [keys |-> Append(legacy.keys, k), deps |-> Append(legacy.deps, dep)]
  /\ last' = [Returned("legacy_register", "main", k, IF t = "NO_TARGET" THEN k ELSE t,
                       << >>, << >>, << >>)
                EXCEPT !.cached = c, !.autowire = a]
  /\ UNCHANGED << base, stacks, ctx, started, heap, calls, depth, owners, snap, origin, baseOut >>
  /\ UNCHANGED << gen, decoBase, decoStacks, layers, lazy, regs >>

\* The state a call on the single-binding container leaves behind.
LegacyRan(r) ==
  /\ r.calls <= MaxCalls
  /\ legacy' = [legacy EXCEPT !.deps = r.heap]
  /\ calls' = r.calls
  /\ UNCHANGED << base, stacks, ctx, started, heap, depth, owners, snap, origin, baseOut >>
  /\ UNCHANGED << gen, decoBase, decoStacks, layers, lazy, regs >>

\* resolve(name, **kwargs): ValueError when resolve_optional returns None.
LegacyResolve(k, kw) ==
  \E r \in {LegacyResolveOptional(legacy.keys, Run(legacy.deps, calls), k, kw, {})} :
     /\ LegacyRan(r)
     /\ last' = IF r.err # ""
                  THEN Raised("legacy_resolve", "main", k, "none", kw, r.err, "", r.inv)
                  ELSE IF r.val = None
                    THEN Raised("legacy_resolve", "main", k, "none", kw, "ValueError", k, r.inv)
                    ELSE Returned("legacy_resolve", "main", k, "none", kw, << r.val >>, r.inv)

\* ------------------------------------------------------------ inject
\* get_existing_annot(f, container): the parameters of f without a default
\* whose annotation is in the container or is a parameterized type.
ExistingAnnot(tab, ps) ==
  SelectSeq(ps, LAMBDA p : p.required /\ (Contains(tab, p.type) \/ Origin(p.type) # "none"))

RECURSIVE InjectArgs(_, _, _, _, _, _)

\* The wrapper's loop: a listed parameter the caller did not supply gets
\* container.resolve_optional(annotation) unless that is None.
InjectArgs(tab, decs, st, ps, i, kw) ==
  IF i > Len(ps) \/ st.err # ""
    THEN [st |-> st, kw |-> kw]
    ELSE IF ps[i].name \in KwNames(kw)
      THEN InjectArgs(tab, decs, st, ps, i + 1, kw)
      ELSE LET r == Decorated(ResolveKey(tab, st, ps[i].type, << >>, {}, None),
                              decs, ps[i].type, None)
           IN InjectArgs(tab, decs, r, ps, i + 1,
                         IF r.err = "" /\ r.val # None
                           THEN Append(kw, << ps[i].name, r.val >>)
                           ELSE kw)

\* A call fn(**kw) of a function wrapped by @inject(container=...); the
\* object returned records the arguments fn received.
Inject(f, fn, kw) ==
  /\ started[f]
  /\ \E a \in {InjectArgs(Active(f), ActiveDecorators(f), Run(heap, calls),
                          ExistingAnnot(Active(f), Params(fn)), 1, kw)} :
       \E r \in {IF a.st.err # "" THEN a.st ELSE Invoke(a.st, fn, a.kw)} :
          /\ r.calls <= MaxCalls
          /\ Ran(r)
          /\ last' = IF r.err # ""
                       THEN Raised("inject", f, fn, fn, kw, r.err, "", r.inv)
                       ELSE Returned("inject", f, fn, fn, kw, << r.val >>, r.inv)
          /\ UNCHANGED lazy

\* ------------------------------------------------------------ specifications
Flags == {TRUE, FALSE}
Reg(k, t, c, a) == [key |-> k, target |-> t, cached |-> c, autowire |-> a]

\* One flow, one interface key with its annotated form, producers without
\* parameters: the binding lists, LIFO resolution, caching, resolve_all.
ListKeys == {"Logger", "AnnLogger"}
ListTargets == {"Logger", "Empty", "const"}
ListRegs ==
  {Reg("Logger", t, c, TRUE) : t \in {"Logger", "Empty", "NO_TARGET"}, c \in Flags}
    \cup {Reg("Logger", "Empty", TRUE, FALSE)}
    \cup {Reg("Logger", "const", FALSE, a) : a \in Flags}
    \cup {Reg("AnnLogger", "const", FALSE, TRUE), Reg("ClassVarT", "const", FALSE, TRUE)}

Next ==
  \/ \E r \in ListRegs : Register("main", r.key, r.target, r.cached, r.autowire)
  \/ \E k \in ListKeys : Remove("main", k)
  \/ \E k \in ListKeys, t \in ListTargets : RemoveTarget("main", k, t)
  \/ \E k \in ListKeys : Resolve("main", k, << >>)
  \/ \E k \in ListKeys : ResolveOptional("main", k, CallerValue, << >>)
  \/ \E k \in ListKeys : ResolveAll("main", k, << >>)
  \/ \E k \in ListKeys : Has("main", k)

Spec == Init /\ [][Next]_vars

\* One flow, two class keys, a producer whose parameter is the other key:
\* recursive autowiring, caller kwargs, unresolved keys.
WireKeys == {"Logger", "Service"}
WireRegs ==
  {Reg("Logger", t, FALSE, a) : t \in {"Logger", "Service"}, a \in Flags}
    \cup {Reg("Service", t, FALSE, a) : t \in {"Service", "Client", "NO_TARGET"}, a \in Flags}
    \cup {Reg("ClassVarT", "const", FALSE, TRUE)}

NextWire ==
  \/ \E r \in WireRegs : Register("main", r.key, r.target, r.cached, r.autowire)
  \/ \E k \in WireKeys : Remove("main", k)
  \/ \E k \in WireKeys \cup {"AnnLogger"}, kw \in KwInputs : Resolve("main", k, kw)
  \/ \E k \in WireKeys \cup {"AnnLogger"}, dflt \in {None, CallerValue} :
       ResolveOptional("main", k, dflt, << >>)
  \/ \E k \in WireKeys : ResolveAll("main", k, << >>)

SpecWire == Init /\ [][NextWire]_vars

\* One flow, nested scopes.
ScopeKeys == {"Logger", "Service"}
ScopeRegs ==
  {Reg("Logger", t, FALSE, TRUE) : t \in {"Logger", "Service"}}
    \cup {Reg("Service", "NO_TARGET", FALSE, TRUE)}

NextScope ==
  \/ \E r \in ScopeRegs : Register("main", r.key, r.target, r.cached, r.autowire)
  \/ \E k \in ScopeKeys : Remove("main", k)
  \/ \E k \in ScopeKeys, t \in {"Logger", "Service"} : RemoveTarget("main", k, t)
  \/ \E k \in ScopeKeys : Has("main", k)
  \/ Enter("main")
  \/ \E e \in BlockExceptions : ExitWith("main", e)

SpecScope == Init /\ [][NextScope]_vars

\* Concurrent flows sharing the container: the spawning flow acts, then
\* spawns two children that interleave while it waits for them.  Every flow
\* registers its own producer under the one key and holds one scope at a time.
FlowTarget(f) == CASE f = "main" -> "Logger" [] f = "A" -> "Service" [] OTHER -> "Empty"

NextFlows ==
  \/ \E f \in Flows : Running(f) /\ Register(f, "Logger", FlowTarget(f), FALSE, TRUE)
  \/ \E f \in Flows : Running(f) /\ Remove(f, "Logger")
  \/ \E f \in Flows : Running(f) /\ Has(f, "Logger")
  \/ \E f \in Flows : Running(f) /\ depth[f] = 0 /\ Enter(f)
  \/ \E f \in Flows : Running(f) /\ Exit(f)
  \/ SpawnTasks("main")
  \/ SpawnThreads("main")

SpecFlows == Init /\ [][NextFlows]_vars

\* The single-binding container: generic keys and the classes that declare
\* them as base.
LegacyRegs ==
  {Reg(k, "NO_TARGET", FALSE, TRUE) : k \in {"UserRepo", "NeedyRepo", "BrokenRepo", "Repo", "Dep"}}
    \cup {Reg("RepoUser", "UserRepo", FALSE, TRUE), Reg("UserRepo", "NO_TARGET", TRUE, FALSE)}

NextLegacy ==
  \/ \E r \in LegacyRegs : LegacyRegister(r.key, r.target, r.cached, r.autowire)
  \/ \E k \in LegacyKeys : LegacyResolve(k, << >>)

SpecLegacy == Init /\ [][NextLegacy]_vars

\* Functions and producers with a parameter that has a default (Client) and
\* one that has none (Service).
InjectFns == {"Service", "Client"}

NextInject ==
  \/ \E c \in Flags, a \in Flags : Register("main", "Logger", "NO_TARGET", c, a)
  \/ \E t \in InjectFns, c \in Flags : Register("main", "Service", t, c, TRUE)
  \/ \E k \in {"Logger", "Service"} : Remove("main", k)
  \/ \E fn \in InjectFns, kw \in KwInputs : Inject("main", fn, kw)
  \/ \E k \in {"Logger", "Service"}, kw \in KwInputs : Resolve("main", k, kw)

SpecInject == Init /\ [][NextInject]_vars

\* One flow, one class key, decorators registered for it.
NextDeco ==
  \/ \E c \in Flags : Register("main", "Logger", "NO_TARGET", c, TRUE)
  \/ \E d \in ClassDecorators \cup {"object"} : RegisterDecorator("main", "Logger", d)
  \/ Resolve("main", "Logger", << >>)
  \/ ResolveOptional("main", "Logger", None, << >>)

SpecDeco == Init /\ [][NextDeco]_vars

\* Lazy fields: an object with a lazy or optional-lazy field of type Logger,
\* read while Logger is bound, not bound, or bound to something else.
LazyRegs ==
  {Reg("Logger", t, c, TRUE) : t \in {"NO_TARGET", "Empty"}, c \in Flags}
  \cup {Reg("Service", "NO_TARGET", FALSE, TRUE)}
NextLazy ==
  \/ \E g \in LazyRegs : Register("main", g.key, g.target, g.cached, g.autowire)
  \/ Remove("main", "Logger")
  \/ \E kind \in FieldKinds : Construct("main", kind)
  \/ SetField("main")
  \/ ReadField("main")
SpecLazy == Init /\ [][NextLazy]_vars

\* Two objects of one class with a lazy field.
NextLazyTwo ==
  \/ \E c \in Flags : Register("main", "Logger", "NO_TARGET", c, TRUE)
  \/ \E kind \in FieldKinds : Construct("main", kind)
  \/ ConstructAnother("main")
  \/ SetField("main")
  \/ ReadField("main")
SpecLazyTwo == Init /\ [][NextLazyTwo]_vars

\* Registries made from registries: x and y get bindings, z is made from
\* them, and all three are then written.
TwoRegs ==
  {Reg("Logger", t, FALSE, TRUE) : t \in {"NO_TARGET", "Empty"}}
    \cup {Reg("Service", "NO_TARGET", FALSE, TRUE)}
RegWrites ==
  ({"x", "z"} \X {g \in TwoRegs : g.key = "Logger"}) \cup ({"y"} \X TwoRegs)
NextRegs ==
  \/ \E w \in RegWrites : RegRegister(w[1], w[2].key, w[2].target, w[2].cached, w[2].autowire)
  \/ \E c \in {"x", "z"} : RegRemove(c, "Logger")
  \/ \E c \in {"x", "z"}, t \in {"Logger", "Empty"} : RegRemoveTarget(c, "Logger", t)
  \/ Copy
  \/ Add
SpecRegs == Init /\ [][NextRegs]_vars

\* Decorators by key: Logger requested under its own key and under the
\* interface key Service, which is bound to the producer Logger.
DecoKeys == {"Logger", "Service"}
NextDecoKey ==
  \/ Register("main", "Logger", "NO_TARGET", FALSE, TRUE)
  \/ Register("main", "Service", "Logger", FALSE, TRUE)
  \/ \E k \in DecoKeys, d \in {"First", "Second"} : RegisterDecorator("main", k, d)
  \/ \E k \in DecoKeys : Resolve("main", k, << >>)
SpecDecoKey == Init /\ [][NextDecoKey]_vars

\* Decorators registered inside scopes, on a binding that is or is not cached.
NextDecoScope ==
  \/ \E c \in Flags : Register("main", "Logger", "NO_TARGET", c, TRUE)
  \/ RegisterDecorator("main", "Logger", "First")
  \/ Resolve("main", "Logger", << >>)
  \/ Enter("main")
  \/ Exit("main")
SpecDecoScope == Init /\ [][NextDecoScope]_vars

\* Decorators for a class that is the parameter type of another producer.
NextDecoWire ==
  \/ Register("main", "Logger", "NO_TARGET", FALSE, TRUE)
  \/ Register("main", "Service", "NO_TARGET", FALSE, TRUE)
  \/ \E k \in DecoKeys, d \in {"First", "Second"} : RegisterDecorator("main", k, d)
  \/ \E k \in DecoKeys : Resolve("main", k, << >>)

SpecDecoWire == Init /\ [][NextDecoWire]_vars

\* Producers that compare equal without being the same object.
EqTargets == EqualProducers \cup {"Logger"}

NextEq ==
  \/ \E k \in {"Logger", "Service"}, t \in EqTargets, c \in Flags :
       Register("main", k, t, c, TRUE)
  \/ \E k \in {"Logger", "Service"}, t \in EqTargets : RemoveTarget("main", k, t)
  \/ \E k \in {"Logger", "Service"} : Resolve("main", k, << >>)

SpecEq == Init /\ [][NextEq]_vars

\* One flow, one key, every call of the container and lookups through the
\* dependencies view, inside and outside a scope.
NextView ==
  \/ \E t \in {"NO_TARGET", "Empty"} : Register("main", "Logger", t, FALSE, TRUE)
  \/ Remove("main", "Logger")
  \/ \E t \in {"Logger", "Empty"} : RemoveTarget("main", "Logger", t)
  \/ Has("main", "Logger")
  \/ Resolve("main", "Logger", << >>)
  \/ ResolveAll("main", "Logger", << >>)
  \/ Enter("main")
  \/ Exit("main")
  \/ ViewLookup("main", "Logger")
SpecView == Init /\ [][NextView]_vars

\* A generator of resolve_all kept while the table changes.
NextGen ==
  \/ \E t \in {"NO_TARGET", "Empty"} : Register("main", "Logger", t, FALSE, TRUE)
  \/ Remove("main", "Logger")
  \/ Enter("main")
  \/ Exit("main")
  \/ ResolveAllCall("main", "Logger")
  \/ Consume("main")

SpecGen == Init /\ [][NextGen]_vars

\* ------------------------------------------------------------ properties
\* The table the last call read or wrote, K's own list in it, and the list
\* the lookup of K finds (K's own, or for an annotated K without bindings the
\* list of the type it annotates).
Seen == Active(last.flow)
OwnList == ListOf(Seen, last.key)
FoundList == Lookup(Seen, last.key)

\* C1: resolve(K) returns a value produced by the producer of the last
\* (most recently registered) binding of K's list in the active table.
C1_ResolveLatest ==
  (last.op = "resolve" /\ last.err = "" /\ Len(OwnList) > 0)
    => last.out[1].by = heap[OwnList[Len(OwnList)]].target

C1_Witness ==
  /\ last.op = "resolve" /\ last.err = ""
  /\ Len(OwnList) = 3
  /\ last.out[1].by = heap[OwnList[3]].target
  /\ last.out[1].by # heap[OwnList[1]].target

\* C2: when a scope is exited, the bindings of the active table (every key,
\* every list, in order, with flags) and so has(K) for every key are what they
\* were just before the matching enter, whatever was registered or removed
\* inside, at any depth.
C2_ScopeRestored ==
  [][\A f \in Flows :
       Len(snap'[f]) < Len(snap[f])
         => /\ (Bindings(Active(f)))' = snap[f][Len(snap[f])]
            /\ \A k \in Keys :
                 (Contains(Active(f), k))' <=>
                   (k \in DOMAIN snap[f][Len(snap[f])] /\ Len(snap[f][Len(snap[f])][k]) > 0)]_vars

C2_Witness ==
  /\ last.op = "exit" /\ last.hit
  /\ depth["main"] = 1
  /\ Bindings(Active("main")) # EmptyTable
  /\ Bindings(Active("main")) # Bindings(base)

\* C3: a binding registered by one child flow inside its scope is never in
\* the table that a has/resolve/resolve_all call of the other child flow,
\* made inside that flow's scope, reads.
C3_FlowsIsolated ==
  \A a \in Children, b \in Children :
    (a # b /\ depth[b] > 0)
      => \A d \in TableRefs(Active(b)) : ~(origin[d].flow = a /\ origin[d].scoped)

\* C4: no binding registered inside a scope is in the base table, and once
\* every flow has left its scopes the base table holds the bindings it held
\* after the last write made outside any scope.
C4_BaseUntouched ==
  /\ \A d \in TableRefs(base) : ~origin[d].scoped
  /\ (\A f \in Flows : depth[f] = 0) => Bindings(base) = baseOut

C4_Witness ==
  /\ \A f \in Flows : depth[f] = 0
  /\ started["A"] /\ started["B"]
  /\ last.op = "exit" /\ last.hit
  /\ Bindings(base) # EmptyTable

\* C5: registering producer P under K when K's list already has a binding of
\* P leaves the other bindings in their order followed by one binding of P
\* with the flags just given.
C5_ReRegisterReplaces ==
  [][(/\ last'.op = "register" /\ last'.err = ""
      /\ \E i \in 1 .. Len(ListOf(Active(last'.flow), last'.key)) :
           heap[ListOf(Active(last'.flow), last'.key)[i]].target = last'.target)
       => (Bindings(Active(last.flow)))'[last'.key] =
            SelectSeq(Bindings(Active(last'.flow))[last'.key],
                      LAMBDA b : b.target # last'.target)
              \o << [target |-> last'.target, cached |-> last'.cached,
                     autowire |-> last'.autowire] >>]_vars

C5_Witness ==
  /\ last.op = "register" /\ last.hit
  /\ Len(OwnList) = 2
  /\ heap[OwnList[2]].target = last.target
  /\ heap[OwnList[2]].cached /\ ~heap[OwnList[2]].autowire

\* C6: resolve_all(K) yields one value per binding of the list the lookup of
\* K finds in the active table, newest binding first, and nothing when there
\* is none; this holds for every call, each walking the list as it then is.
C6_ResolveAllNewestFirst ==
  (last.op = "resolve_all" /\ last.err = "")
    => /\ Len(last.out) = Len(FoundList)
       /\ \A i \in 1 .. Len(FoundList) :
            last.out[i].by = heap[FoundList[Len(FoundList) + 1 - i]].target

C6_Witness ==
  /\ last.op = "resolve_all" /\ last.err = ""
  /\ Len(last.out) = 3
  /\ last.out[1].by = heap[OwnList[3]].target

\* C7: when the binding resolve(K) picks is cached and holds an instance from
\* an earlier resolve, resolve(K) returns that very instance and invokes no
\* producer, whatever the instance is; when the binding is not cached and its
\* producer is callable, resolve(K) invokes the producer and returns a new
\* object.
C7_CachedReturnsSame ==
  [][(last'.op = "resolve" /\ last'.err = ""
        /\ Len(Lookup(Active(last'.flow), last'.key)) > 0)
       => LET d == PickBinding(Lookup(Active(last'.flow), last'.key))
          IN /\ (heap[d].cached /\ heap[d].instance # None)
                  => (last'.out = << heap[d].instance >> /\ last'.inv = << >>)
             /\ (~heap[d].cached /\ Callable(heap[d].target))
                  => (last'.inv = << heap[d].target >> /\ last'.out[1].n > calls)]_vars

\* C8: remove(K, P) leaves K's list without the binding of P and with the
\* other bindings in their order, and resolve(K) then returns a value produced
\* by the newest of them.
C8_RemoveTarget ==
  /\ [][(last'.op = "remove" /\ last'.err = "" /\ last'.target \in Targets)
       => LET old == Bindings(Active(last'.flow))[last'.key]
              rest == SelectSeq(old, LAMBDA b : b.target # last'.target)
          IN /\ Len(old) = Len(rest) + 1
             /\ (ListOf(Bindings(Active(last.flow)), last.key))' = rest
             /\ Len(rest) > 0
                  => (heap[PickBinding(Lookup(Active(last.flow), last.key))].target)' =
                       rest[Len(rest)].target]_vars
  /\ []((last.op = "remove" /\ last.err = "" /\ last.target \in Targets /\ Len(OwnList) > 0)
          => \A r \in {ResolveKey(Seen, Run(heap, calls), last.key, << >>, {}, NOT_RESOLVED)} :
               r.err = "" /\ r.val.by = heap[OwnList[Len(OwnList)]].target)

C8_Witness ==
  /\ last.op = "remove" /\ last.err = "" /\ last.target \in Targets
  /\ Len(OwnList) = 2

\* C9: resolve(K) on an autowired binding passes the producer, for each
\* declared parameter whose type is a key of the active table, the value
\* resolved for that key, and passes nothing for a parameter whose type is
\* not a key of the active table.
C9_Autowired ==
  (/\ last.op = "resolve" /\ last.err = "" /\ last.kw = << >>
   /\ heap[PickBinding(FoundList)].autowire
   /\ Callable(heap[PickBinding(FoundList)].target))
    => LET ps == Params(heap[PickBinding(FoundList)].target)
           args == last.out[1].args
       IN \A i \in 1 .. Len(ps) :
            IF ps[i].type \in DOMAIN Seen
              THEN /\ ps[i].name \in KwNames(args)
                   /\ KwGet(args, ps[i].name).by =
                        heap[PickBinding(Lookup(Seen, ps[i].type))].target
              ELSE ps[i].name \notin KwNames(args)

C9_Witness ==
  /\ last.op = "resolve" /\ last.err = "" /\ last.kw = << >>
  /\ last.out[1].by = "Service"
  /\ heap[PickBinding(FoundList)].autowire
  /\ KwGet(last.out[1].args, "log").by = "Logger"

\* C10: resolve(K) raises the error naming K exactly when the lookup of K in
\* the active table finds no binding; resolve_optional(K, default) then
\* returns the default and raises nothing.
C10_Unresolved ==
  /\ last.op = "resolve"
       => ((last.err = "ValueError" /\ last.errKey = last.key) <=> Len(FoundList) = 0)
  /\ (last.op = "resolve_optional" /\ Len(FoundList) = 0)
       => (last.err = "" /\ last.out = << last.dflt >>)

C10_Witness ==
  /\ last.op = "resolve" /\ last.err = "ValueError" /\ last.errKey = "Service"
  /\ DOMAIN Seen # {}

\* C11: remove(K) with K absent from the active table, and remove(K, P) with
\* no binding of P under K, raise an error and leave the active table, its
\* keys, lists and their order, as it was.
C11_RemoveAbsentRaises ==
  [][(/\ last'.op = "remove"
      /\ \/ last'.key \notin DOMAIN Active(last'.flow)
         \/ /\ last'.target \in Targets
            /\ \A i \in 1 .. Len(ListOf(Active(last'.flow), last'.key)) :
                 heap[Active(last'.flow)[last'.key][i]].target # last'.target)
       => /\ last'.err = "ValueError"
          /\ (Bindings(Active(last.flow)))' = Bindings(Active(last'.flow))]_vars

C11_Witness ==
  /\ last.op = "remove" /\ last.err = "ValueError"
  /\ last.target \in Targets
  /\ Len(OwnList) = 2

\* C12: when the parameterized key Repo[User] is not registered and a class
\* that declares Repo[User] as its generic base is, resolve(Repo[User]) is
\* never reported unresolved and a value it returns was produced by the
\* binding of such a class.
C12_GenericFallback ==
  (/\ last.op = "legacy_resolve" /\ last.key = "RepoUser"
   /\ ~LegacyHas(legacy.keys, "RepoUser")
   /\ \E i \in 1 .. Len(legacy.keys) : "RepoUser" \in OrigBases(legacy.keys[i]))
    => /\ last.err # "ValueError"
       /\ last.err = ""
            => \E i \in 1 .. Len(legacy.keys) :
                 /\ "RepoUser" \in OrigBases(legacy.keys[i])
                 /\ last.out[1].by = legacy.deps[i].target

\* The decorator layers on the object the last call returned.
OutLayers == layers[last.out[1].n]

C14_LazyOnce ==
  /\ []((lazy.kind = "Lazy" /\ lazy.reads = 0) => lazy.produced = 0)
  /\ [][(/\ lazy.kind = "Lazy" /\ ~lazy.assigned /\ ~lazy.raised
          /\ last.op = "read" /\ last'.op = "read"
          /\ lazy'.reads = lazy.reads + 1)
         => lazy'.produced = lazy.produced]_vars

\* C15: with no binding for the field's type, reading an optional-lazy field
\* returns None without raising and reading a lazy field raises the
\* unresolved-dependency error naming the type; constructing the object
\* raises nothing and calls no producer.
C15_OptionalLazyNull ==
  /\ last.op = "construct" => last.err = "" /\ lazy.produced = 0 /\ lazy.value = EmptyValue
  /\ (last.op = "read" /\ ~lazy.assigned /\ ~Contains(Active(last.flow), FieldType))
       => IF last.target = "OptionalLazy"
            THEN last.err = "" /\ last.out = << None >>
            ELSE last.err = "ValueError" /\ last.errKey = FieldType /\ last.out = << >>
C15_Witness ==
  /\ last.op = "read" /\ last.target = "OptionalLazy" /\ ~lazy.assigned
  /\ ~Contains(Active(last.flow), FieldType) /\ last.out = << None >>
  /\ lazy.reads = 2

\* C16: when the block of an entered scope ends by raising, exit still pops
\* the scope, so the active bindings are those seen just before the matching
\* enter, and the caller gets the very exception the block raised.
C16_ExitOnException ==
  [][\A f \in Flows :
       (last'.op = "exit" /\ last'.flow = f /\ last'.target # "none")
         => /\ Len(snap'[f]) = Len(snap[f]) - 1
            /\ (Bindings(Active(f)))' = snap[f][Len(snap[f])]
            /\ (Len(StackOf(f)))' = Len(StackOf(f)) - 1
            /\ last'.err = last'.target]_vars

C16_Witness ==
  /\ last.op = "exit" /\ last.target = "KeyError" /\ last.err = "KeyError" /\ last.hit
  /\ depth["main"] = 1
  /\ Bindings(Active("main")) # Bindings(base)

\* C17: register (and register_dependency, which it calls) with a ClassVar
\* key raises TypeError at once and leaves every table as it was: no key and
\* no binding is added.
C17_ClassVarRejected ==
  [][(last'.op = "register" /\ last'.key \in ClassVarKeys)
       => /\ last'.err = "TypeError"
          /\ UNCHANGED << base, stacks, heap >>
          /\ \A f \in Flows : (Bindings(Active(f)))' = Bindings(Active(f))]_vars

C17_Witness ==
  /\ last.op = "register" /\ last.key \in ClassVarKeys /\ last.err = "TypeError"
  /\ DOMAIN base = {"Logger"} /\ Len(base["Logger"]) = 2

\* C18: after z = x.copy(), no register or remove on z changes what has,
\* resolve and resolve_all answer on x, and no register or remove on x
\* changes what they answer on z.
C18_CopyIsolated ==
  [][(regs.kind = "copy" /\ regs'.last.op \in {"register", "remove"})
       => /\ regs'.last.on = "z" => Observed(regs', "x") = Observed(regs, "x")
          /\ regs'.last.on = "x" => Observed(regs', "z") = Observed(regs, "z")]_vars

\* C19: in z = x + y every key of x maps to x's whole list, whatever y holds
\* under it, every other key of y maps to y's list, and z has no other key.
C19_MergeSelfWins ==
  regs.last.op = "add"
    => /\ DOMAIN regs.tabs["z"] = DOMAIN regs.tabs["x"] \cup DOMAIN regs.tabs["y"]
       /\ \A k \in DOMAIN regs.tabs["x"] :
            /\ regs.tabs["z"][k] = regs.tabs["x"][k]
            /\ RegView(regs, "z")[k] = RegView(regs, "x")[k]
       /\ \A k \in DOMAIN regs.tabs["y"] \ DOMAIN regs.tabs["x"] :
            RegView(regs, "z")[k] = RegView(regs, "y")[k]
C19_Witness ==
  /\ regs.last.op = "add"
  /\ DOMAIN regs.tabs["x"] = {"Logger"}
  /\ DOMAIN regs.tabs["y"] = {"Logger", "Service"}
  /\ Len(RegView(regs, "x")["Logger"]) = 1
  /\ Len(RegView(regs, "y")["Logger"]) = 2
  /\ RegView(regs, "z")["Logger"] = RegView(regs, "x")["Logger"]
  /\ RegView(regs, "z")["Service"] = RegView(regs, "y")["Service"]

\* C20: resolve(K, **kwargs) on a binding whose autowire flag is false
\* invokes the producer, and no other, with exactly the caller's kwargs: the
\* object it returns was built from them, and it raises TypeError only when
\* they do not fit the producer's parameters.
C20_NoAutowireKwargs ==
  (/\ last.op = "resolve" /\ Len(FoundList) > 0
   /\ ~heap[PickBinding(FoundList)].autowire
   /\ ~heap[PickBinding(FoundList)].cached
   /\ Callable(heap[PickBinding(FoundList)].target))
    => LET t == heap[PickBinding(FoundList)].target
       IN /\ last.inv = << t >>
          /\ IF KwNames(last.kw) \subseteq ParamNames(t) /\ RequiredNames(t) \subseteq KwNames(last.kw)
               THEN last.err = "" /\ last.out[1].by = t /\ last.out[1].args = last.kw
               ELSE last.err = "TypeError"

\* C21: when resolve(K, **kwargs) wires an autowired producer, a parameter
\* whose name the caller supplied is not resolved: only the producer of K is
\* invoked, the Dependency objects bound to the parameter's type keep the
\* instance they had, and the producer receives the caller's value.
C21_SuppliedNotResolved ==
  [][\A f \in Flows, k \in Keys :
       (/\ last'.op = "resolve" /\ last'.err = "" /\ last'.flow = f /\ last'.key = k
        /\ Len(Lookup(Active(f), k)) > 0
        /\ heap[PickBinding(Lookup(Active(f), k))].autowire
        /\ Callable(heap[PickBinding(Lookup(Active(f), k))].target))
         => LET d == PickBinding(Lookup(Active(f), k))
                ps == Params(heap[d].target)
            IN \A i \in 1 .. Len(ps) :
                 (ps[i].name \in KwNames(last'.kw) /\ ps[i].type \in DOMAIN Active(f))
                   => /\ last'.inv = << heap[d].target >>
                      /\ KwGet(last'.out[1].args, ps[i].name) = KwGet(last'.kw, ps[i].name)
                      /\ \A e \in Refs(base, stacks) \ {d} :
                           heap'[e].instance = heap[e].instance]_vars

C21_Witness ==
  /\ last.op = "resolve" /\ last.err = "" /\ last.key = "Service"
  /\ last.kw = << << "log", CallerValue >> >>
  /\ last.out[1].by = "Service"
  /\ heap[PickBinding(FoundList)].autowire
  /\ Len(Lookup(Seen, "Logger")) > 0
  /\ heap[PickBinding(Lookup(Seen, "Logger"))].target = "Logger"
  /\ last.out[1].args = << << "log", CallerValue >> >>

\* C22: in one flow the stack holds one snapshot per scope entered and not
\* yet exited; has reads the top snapshot; enter leaves the active bindings
\* as they are, so what an outer scope registered is visible inside; a write
\* made inside a scope changes neither the base table nor the snapshots
\* underneath; and exit from a nested scope makes the outer scope's snapshot,
\* with the outer scope's own writes, the active table.
C22_TopOfStack ==
  /\ [](\A f \in Flows : Len(StackOf(f)) = depth[f])
  /\ [](last.op = "has" =>
          (last.hit <=>
             Contains(IF Len(StackOf(last.flow)) > 0
                        THEN StackOf(last.flow)[Len(StackOf(last.flow))]
                        ELSE base, last.key)))
  /\ [][\A f \in Flows :
         /\ (last'.op = "enter" /\ last'.flow = f)
              => /\ (Len(StackOf(f)))' = Len(StackOf(f)) + 1
                 /\ (Bindings(Active(f)))' = Bindings(Active(f))
         /\ (last'.op \in {"register", "remove"} /\ last'.flow = f /\ depth[f] > 0)
              => /\ (Bindings(base))' = Bindings(base)
                 /\ (Len(StackOf(f)))' = Len(StackOf(f))
                 /\ \A i \in 1 .. (Len(StackOf(f)) - 1) :
                      (Bindings(StackOf(f)[i]))' = Bindings(StackOf(f)[i])
         /\ (last'.op = "exit" /\ last'.flow = f /\ depth[f] > 1)
              => (Bindings(Active(f)))' = Bindings(StackOf(f)[Len(StackOf(f)) - 1])]_vars

C22_Witness ==
  /\ last.op = "exit" /\ last.target = "none" /\ last.hit
  /\ Len(StackOf("main")) = 1
  /\ "Service" \in DOMAIN Active("main") /\ "Service" \notin DOMAIN base
  /\ "Logger" \in DOMAIN base /\ "Logger" \in DOMAIN Active("main")

\* C23: no key of the base table or of a snapshot maps to an empty list of
\* bindings, whatever calls and view lookups were made.
C23_NoEmptyList ==
  /\ \A k \in DOMAIN base : Len(base[k]) > 0
  /\ \A f \in Flows : \A i \in 1 .. Len(stacks[f]) :
       \A k \in DOMAIN stacks[f][i] : Len(stacks[f][i][k]) > 0

\* C24: an instance a producer has just made for resolve carries exactly
\* the decorators registered for the instance's own type, under whatever key
\* it was requested, and none registered only for the request key.
C24_ByConcreteType ==
  (last.op = "resolve" /\ last.err = "" /\ last.inv # << >> /\ last.out[1].n > 0)
    => OutLayers = ListOf(ActiveDecorators(last.flow), last.out[1].by)

\* C25: registering a decorator appends an entry even when the list already
\* holds it, and an instance a producer has just made for resolve of its own
\* type carries one wrapper layer per entry of the type's list in the active
\* decorator table, an entry registered twice counting twice.
C25_DuplicatesCount ==
  /\ [][\A f \in Flows, k \in Keys :
          (last'.op = "register_decorator" /\ last'.err = "" /\ last'.flow = f /\ last'.key = k)
            => ActiveDecorators(f)'[k] = Append(ListOf(ActiveDecorators(f), k), last'.target)]_vars
  /\ []((/\ last.op = "resolve" /\ last.err = "" /\ last.inv # << >>
          /\ last.out[1].by = last.key)
         => /\ Len(OutLayers) = Len(ListOf(ActiveDecorators(last.flow), last.key))
            /\ \A d \in ClassDecorators :
                 Cardinality({i \in 1 .. Len(OutLayers) : OutLayers[i] = d}) =
                   Cardinality({i \in 1 .. Len(ListOf(ActiveDecorators(last.flow), last.key)) :
                                  ListOf(ActiveDecorators(last.flow), last.key)[i] = d}))

C25_Witness ==
  /\ last.op = "resolve" /\ last.err = "" /\ last.inv # << >>
  /\ last.key = "Logger"
  /\ ListOf(ActiveDecorators(last.flow), "Logger") = << "First", "Second", "First" >>
  /\ OutLayers = << "First", "Second", "First" >>

\* C26: every wrapper layer on an instance returned by resolve is a decorator
\* the active decorator table holds for its type: what was registered inside
\* a scope that has been left is not on it.
C26_ScopedDecoratorsDiscarded ==
  (last.op = "resolve" /\ last.err = "" /\ last.out[1].n > 0)
    => \A i \in 1 .. Len(OutLayers) :
         \E j \in 1 .. Len(ListOf(ActiveDecorators(last.flow), last.out[1].by)) :
           ListOf(ActiveDecorators(last.flow), last.out[1].by)[j] = OutLayers[i]

\* C27: an exception raised by the body of a producer that a call invoked is
\* the exception the call raises, and no producer is invoked after the one
\* that raised.
C27_ProducerExceptionPropagates ==
  \A i \in 1 .. Len(last.inv) :
     Raises(last.inv[i]) # "" => (last.err = Raises(last.inv[i]) /\ i = Len(last.inv))

\* C28: when Repo[User] is not registered while a class declaring Repo[User]
\* as generic base and the bare origin Repo both are, resolve(Repo[User])
\* returns an instance made by such a class and never invokes the producer
\* registered for Repo.
C28_SubtypeBeforeOrigin ==
  (/\ last.op = "legacy_resolve" /\ last.key = "RepoUser"
   /\ ~LegacyHas(legacy.keys, "RepoUser")
   /\ LegacyHas(legacy.keys, "Repo")
   /\ \E i \in 1 .. Len(legacy.keys) : "RepoUser" \in OrigBases(legacy.keys[i]))
    => /\ \A j \in 1 .. Len(last.inv) :
            last.inv[j] # legacy.deps[LegacyIndex(legacy.keys, "Repo")].target
       /\ last.err = "" => "RepoUser" \in OrigBases(last.out[1].by)

\* C29: when Repo[User] is not registered, no registered class declares
\* Repo[User] as generic base and Repo is not registered, resolve(Repo[User])
\* raises the unresolved-key error and invokes no producer or constructor.
C29_UnresolvedGeneric ==
  (/\ last.op = "legacy_resolve" /\ last.key = "RepoUser"
   /\ ~LegacyHas(legacy.keys, "RepoUser")
   /\ ~LegacyHas(legacy.keys, "Repo")
   /\ \A i \in 1 .. Len(legacy.keys) : "RepoUser" \notin OrigBases(legacy.keys[i]))
    => /\ last.err = "ValueError"
       /\ last.inv = << >>

\* C30: a parameter with a default is autowired like any other when its
\* declared type is a key of the active table, and is left to its default
\* only otherwise: without caller arguments, an autowired producer run by
\* resolve and a function called through the inject wrapper receive a
\* parameter exactly when its type is registered.
C30_DefaultOverridden ==
  /\ (/\ last.op = "resolve" /\ last.err = "" /\ last.kw = << >> /\ last.inv # << >>
      /\ heap[PickBinding(FoundList)].autowire)
       => \A i \in 1 .. Len(Params(last.out[1].by)) :
            (Params(last.out[1].by)[i].name \in KwNames(last.out[1].args))
              <=> Params(last.out[1].by)[i].type \in DOMAIN Seen
  /\ (last.op = "inject" /\ last.err = "" /\ last.kw = << >>)
       => \A i \in 1 .. Len(Params(last.target)) :
            (Params(last.target)[i].name \in KwNames(last.out[1].args))
              <=> Contains(Seen, Params(last.target)[i].type)

\* C39: a Dependency object of the tables holds an instance only if it is
\* cached, and a resolve that picks a binding that is not cached leaves no
\* instance on it.
C39_InstanceOnlyWhenCached ==
  \A d \in Refs(base, stacks) : heap[d].instance # None => heap[d].cached

\* C33: an instance that resolve returns from a cached binding of its own
\* type carries exactly as many wrapper layers as the active decorator table
\* has entries for the type, on the first resolve and on every later one.
C33_CachedLayersStable ==
  (/\ last.op = "resolve" /\ last.err = "" /\ Len(FoundList) > 0
   /\ heap[PickBinding(FoundList)].cached
   /\ last.out[1].by = last.key)
    => Len(OutLayers) = Len(ListOf(ActiveDecorators(last.flow), last.key))

\* C37: a resolve made inside a scope leaves no instance on a cached binding
\* of the table underneath the scope, so that after the exit the binding
\* holds what it held at the enter and an object made inside the scope is
\* not returned outside it.
C37_ScopeCacheRestored ==
  [][\A f \in Flows :
       (last'.op = "resolve" /\ last'.flow = f /\ depth[f] > 0)
         => \A d \in TableRefs(base) :
              heap[d].cached => heap'[d].instance = heap[d].instance]_vars

\* C31: an object that resolve made for a parameter of the producer it ran
\* carries the decorators registered for the parameter's type, as the object
\* resolve returns for that type does.
C31_NestedDecorated ==
  (last.op = "resolve" /\ last.err = "" /\ last.inv # << >>)
    => \A i \in 1 .. Len(last.out[1].args) :
         last.out[1].args[i][2].n > 0
           => layers[last.out[1].args[i][2].n] =
                ListOf(ActiveDecorators(last.flow), last.out[1].args[i][2].by)

\* C32: remove(K, P) succeeds only when K's list holds a binding whose
\* producer is the object P itself, and it then removes that binding and no
\* other; with only a different object equal to P under K it raises and
\* leaves the table as it was.
C32_RemoveByIdentity ==
  [][\A f \in Flows, k \in Keys :
       (/\ last'.op = "remove" /\ last'.flow = f /\ last'.key = k
        /\ last'.target # "NO_TARGET")
         => IF \E i \in 1 .. Len(ListOf(Active(f), k)) :
                 heap[ListOf(Active(f), k)[i]].target = last'.target
              THEN /\ last'.err = ""
                   /\ ListOf(Bindings(Active(f)), k)' =
                        SelectSeq(ListOf(Bindings(Active(f)), k),
                                  LAMBDA b : b.target # last'.target)
              ELSE /\ last'.err = "ValueError"
                   /\ Bindings(Active(f))' = Bindings(Active(f))]_vars

\* C34: a value supplied for the lazy field of one object is not what a read
\* of the field on another object of the class returns.
C34_FieldPerInstance ==
  (/\ last.op = "read" /\ last.err = ""
   /\ lazy.setOn # 0 /\ lazy.objs # lazy.setOn)
    => last.out # << CallerValue >>

\* C35: in every flow the stack of binding snapshots and the stack of
\* decorator snapshots have the same length, and the snapshot an exit of a
\* flow pops is one that an enter of that flow pushed.
C35_ExitPopsOwn ==
  /\ [](\A f \in Flows : Len(StackOf(f)) = Len(DecoStackOf(f)))
  /\ [][\A f \in Flows :
          (last'.op = "exit" /\ last'.flow = f /\ Len(StackOf(f)) > 0)
            => Last(owners[ctx[f]]) = f]_vars

\* C38: a register or remove made by a flow that is outside any scope leaves
\* the table read by every other flow that is inside a scope as it was.
C38_ScopedFlowUnaffected ==
  [][\A f \in Flows, g \in Flows :
       (/\ last'.op \in {"register", "remove"} /\ last'.flow = f
        /\ depth[f] = 0 /\ g # f /\ depth[g] > 0)
         => Bindings(Active(g))' = Bindings(Active(g))]_vars

\* C36: the values a generator of resolve_all(K) yields when it is consumed
\* come from the bindings K had in the active table when resolve_all was
\* called, newest first, whatever was registered, removed or exited between
\* the call and the consumption.
C36_GeneratorSnapshot ==
  [][(last'.op = "consume" /\ last'.err = "")
       => /\ Len(last'.out) = Len(gen.seen)
          /\ \A i \in 1 .. Len(gen.seen) :
               last'.out[i].by = gen.seen[Len(gen.seen) + 1 - i].target]_vars

====
